---------------------------- MODULE Spec2Model ----------------------------
(***************************************************************************)
(* A model of 0x0B_redis_basic/exercise.py: the Cache facade over a Redis  *)
(* database, the count_calls and call_history decorators around            *)
(* Cache.store, the typed readers get / get_str / get_int, and replay.     *)
(*                                                                         *)
(* Text is a sequence of code points, a byte string a sequence of numbers  *)
(* in 0..255.  A Python value is a record with a tag t and a payload v;    *)
(* a raised exception is a value tagged "raise".                           *)
(***************************************************************************)
EXTENDS Integers, Sequences, FiniteSets, TLC

(***************************************************************************)
(* Bounds of the model.                                                    *)
(***************************************************************************)
\* store calls started in a run of one caller
MaxCalls == 3
\* facades constructed by one caller in one run (Cache() and replay)
MaxBuilt == 2

(***************************************************************************)
(* Python values.                                                          *)
(***************************************************************************)
None == [t |-> "None", v |-> <<>>]

PyStr(s) == [t |-> "str", v |-> s]

PyBytes(b) == [t |-> "bytes", v |-> b]

PyInt(n) == [t |-> "int", v |-> n]

\* a float with one fractional digit, whole.frac (repr is "<whole>.<frac>")
PyFloat(w, f) == [t |-> "float", v |-> <<w, f>>]

Raise(e) == [t |-> "raise", v |-> e]

\* Python truthiness of the values a read can return (exercise.py:95, 102)
Truthy(x) ==
    CASE x.t = "None" -> FALSE
      [] x.t \in {"bytes", "str"} -> x.v # <<>>
      [] x.t = "int" -> x.v # 0
      [] OTHER -> TRUE

(***************************************************************************)
(* Text and bytes: str.encode("utf-8"), bytes.decode("utf-8"), repr, str,  *)
(* int().  Code points stay below U+0800 (one- and two-byte sequences).    *)
(***************************************************************************)
RECURSIVE Utf8Encode(_)
Utf8Encode(s) ==
    IF s = <<>> THEN <<>>
    ELSE LET c == Head(s)
         IN  (IF c < 128 THEN <<c>>
              ELSE <<192 + (c \div 64), 128 + (c % 64)>>)
             \o Utf8Encode(Tail(s))

RECURSIVE Utf8Valid(_)
Utf8Valid(b) ==
    \/ b = <<>>
    \/ Head(b) < 128 /\ Utf8Valid(Tail(b))
    \/ /\ Head(b) \in 194..223
       /\ Len(b) >= 2
       /\ b[2] \in 128..191
       /\ Utf8Valid(SubSeq(b, 3, Len(b)))

RECURSIVE Utf8Chars(_)
Utf8Chars(b) ==
    IF b = <<>> THEN <<>>
    ELSE IF Head(b) < 128 THEN <<Head(b)>> \o Utf8Chars(Tail(b))
    ELSE <<(Head(b) - 192) * 64 + (b[2] - 128)>>
         \o Utf8Chars(SubSeq(b, 3, Len(b)))

\* value.decode("utf-8") on a bytes value
decode(x) ==
    IF Utf8Valid(x.v) THEN PyStr(Utf8Chars(x.v))
    ELSE Raise("UnicodeDecodeError")

RECURSIVE Digits(_)
Digits(n) ==
    IF n < 10 THEN <<48 + n>> ELSE Digits(n \div 10) \o <<48 + (n % 10)>>

\* repr of an int
IntRepr(n) == IF n < 0 THEN <<45>> \o Digits(-n) ELSE Digits(n)

\* repr of a float of the modelled form
FloatRepr(w) == IntRepr(w[1]) \o <<46>> \o Digits(w[2])

HexDigit(n) == IF n < 10 THEN 48 + n ELSE 87 + n

RECURSIVE BytesBody(_)
BytesBody(b) ==
    IF b = <<>> THEN <<>>
    ELSE LET c == Head(b)
         IN  (IF c \in 32..126 /\ c \notin {39, 92} THEN <<c>>
              ELSE IF c = 39 THEN <<92, 39>>
              ELSE IF c = 92 THEN <<92, 92>>
              ELSE IF c = 9 THEN <<92, 116>>
              ELSE IF c = 10 THEN <<92, 110>>
              ELSE IF c = 13 THEN <<92, 114>>
              ELSE <<92, 120, HexDigit(c \div 16), HexDigit(c % 16)>>)
             \o BytesBody(Tail(b))

\* repr(x) for the payload types of Cache.store; text payloads hold no
\* quote, backslash or unprintable character, so repr quotes them with '
Repr(x) ==
    CASE x.t = "str" -> <<39>> \o x.v \o <<39>>
      [] x.t = "bytes" -> <<98, 39>> \o BytesBody(x.v) \o <<39>>
      [] x.t = "int" -> IntRepr(x.v)
      [] x.t = "float" -> FloatRepr(x.v)
      [] x.t = "None" -> <<78, 111, 110, 101>>

\* str(args) of the one-element tuple args = (data,)
StrArgs(data) == <<40>> \o Repr(data) \o <<44, 41>>

IsDigit(c) == c \in 48..57

IsSpace(c) == c \in {9, 10, 11, 12, 13, 32}

RECURSIVE LStrip(_)
LStrip(b) == IF b # <<>> /\ IsSpace(Head(b)) THEN LStrip(Tail(b)) ELSE b

RECURSIVE RStrip(_)
RStrip(b) ==
    IF b # <<>> /\ IsSpace(b[Len(b)]) THEN RStrip(SubSeq(b, 1, Len(b) - 1))
    ELSE b

RECURSIVE DigitsValue(_)
DigitsValue(b) ==
    IF b = <<>> THEN 0
    ELSE IF b[Len(b)] = 95 THEN DigitsValue(SubSeq(b, 1, Len(b) - 1))
    ELSE 10 * DigitsValue(SubSeq(b, 1, Len(b) - 1)) + (b[Len(b)] - 48)

\* a decimal literal as int() accepts it: digits, single underscores
\* only between digits
DecimalLiteral(b) ==
    /\ b # <<>>
    /\ IsDigit(b[1])
    /\ IsDigit(b[Len(b)])
    /\ \A i \in 1..Len(b) : IsDigit(b[i]) \/ b[i] = 95
    /\ \A i \in 1..(Len(b) - 1) : ~(b[i] = 95 /\ b[i + 1] = 95)

\* int(value) on a bytes value (base 10)
int(x) ==
    LET s == RStrip(LStrip(x.v))
        signed == s # <<>> /\ Head(s) \in {43, 45}
        body == IF signed THEN Tail(s) ELSE s
    IN  IF DecimalLiteral(body)
        THEN PyInt((IF signed /\ Head(s) = 45 THEN -1 ELSE 1) * DigitsValue(body))
        ELSE Raise("ValueError")

(***************************************************************************)
(* eval() of a recorded argument tuple "(<literal>,)" (exercise.py:52).    *)
(***************************************************************************)
HexValue(c) == IF IsDigit(c) THEN c - 48 ELSE c - 87

IsHex(c) == IsDigit(c) \/ c \in 97..102

\* the body of a bytes literal is well formed: every backslash starts an
\* escape this model writes
RECURSIVE EscapesValid(_)
EscapesValid(s) ==
    \/ s = <<>>
    \/ Head(s) \notin {39, 92} /\ Head(s) \in 32..126 /\ EscapesValid(Tail(s))
    \/ /\ Head(s) = 92
       /\ Len(s) >= 2
       /\ \/ s[2] \in {39, 92, 110, 114, 116} /\ EscapesValid(SubSeq(s, 3, Len(s)))
          \/ /\ s[2] = 120
             /\ Len(s) >= 4
             /\ IsHex(s[3])
             /\ IsHex(s[4])
             /\ EscapesValid(SubSeq(s, 5, Len(s)))

RECURSIVE Unescape(_)
Unescape(s) ==
    IF s = <<>> THEN <<>>
    ELSE IF Head(s) # 92 THEN <<Head(s)>> \o Unescape(Tail(s))
    ELSE IF s[2] = 120
         THEN <<16 * HexValue(s[3]) + HexValue(s[4])>>
              \o Unescape(SubSeq(s, 5, Len(s)))
    ELSE <<CASE s[2] = 110 -> 10
             [] s[2] = 116 -> 9
             [] s[2] = 114 -> 13
             [] OTHER -> s[2]>>
         \o Unescape(SubSeq(s, 3, Len(s)))

AllDigits(s) == s # <<>> /\ \A i \in 1..Len(s) : IsDigit(s[i])

\* the position of the first "." of s, 0 when there is none
DotAt(s) ==
    IF \E i \in 1..Len(s) : s[i] = 46
    THEN CHOOSE i \in 1..Len(s) : s[i] = 46 /\ \A j \in 1..(i - 1) : s[j] # 46
    ELSE 0

\* the literal forms repr writes for the payload types
Literal(s) ==
    LET n == Len(s)
        neg == n >= 1 /\ s[1] = 45
        num == IF neg THEN Tail(s) ELSE s
        dot == DotAt(num)
    IN  CASE n >= 2 /\ s[1] = 39 /\ s[n] = 39
             /\ \A i \in 2..(n - 1) : s[i] \notin {39, 92}
               -> PyStr(SubSeq(s, 2, n - 1))
          [] n >= 3 /\ s[1] = 98 /\ s[2] = 39 /\ s[n] = 39
             /\ EscapesValid(SubSeq(s, 3, n - 1))
               -> PyBytes(Unescape(SubSeq(s, 3, n - 1)))
          [] AllDigits(num)
               -> PyInt((IF neg THEN -1 ELSE 1) * DigitsValue(num))
          [] dot > 1 /\ AllDigits(SubSeq(num, 1, dot - 1))
             /\ AllDigits(SubSeq(num, dot + 1, Len(num)))
             /\ Len(num) = dot + 1 /\ ~neg
               -> PyFloat(DigitsValue(SubSeq(num, 1, dot - 1)),
                          DigitsValue(SubSeq(num, dot + 1, Len(num))))
          [] OTHER -> Raise("SyntaxError")

\* eval(text) where text is the str() of a one-element tuple: the tuple,
\* as the sequence of its elements, or the exception raised
eval(x) ==
    LET s == x.v
        n == Len(s)
        lit == IF n >= 3 THEN Literal(SubSeq(s, 2, n - 2)) ELSE Raise("SyntaxError")
    IN  IF n >= 3 /\ s[1] = 40 /\ s[n - 1] = 44 /\ s[n] = 41 /\ lit.t # "raise"
        THEN [t |-> "tuple", v |-> <<lit>>]
        ELSE Raise("SyntaxError")

(***************************************************************************)
(* The Redis commands the module issues, on a database d: a function from  *)
(* key bytes to a string value or a list value.  The client encodes keys   *)
(* and values to bytes: bytes as they are, text as UTF-8, numbers by repr. *)
(***************************************************************************)
Encode(x) ==
    CASE x.t = "bytes" -> x.v
      [] x.t = "str" -> Utf8Encode(x.v)
      [] x.t = "int" -> Utf8Encode(IntRepr(x.v))
      [] x.t = "float" -> Utf8Encode(FloatRepr(x.v))

flushdb == <<>>

Rset(d, key, value) ==
    (Encode(key) :> [t |-> "string", v |-> Encode(value)]) @@ d

Rget(d, key) ==
    IF Encode(key) \in DOMAIN d THEN PyBytes(d[Encode(key)].v) ELSE None

Rincr(d, key) ==
    LET k == Encode(key)
        old == IF k \in DOMAIN d THEN int(PyBytes(d[k].v)).v ELSE 0
    IN  (k :> [t |-> "string", v |-> Encode(PyInt(old + 1))]) @@ d

Rrpush(d, key, value) ==
    LET k == Encode(key)
        old == IF k \in DOMAIN d THEN d[k].v ELSE <<>>
    IN  (k :> [t |-> "list", v |-> Append(old, Encode(value))]) @@ d

\* lrange(key, 0, -1)
Rlrange(d, key) ==
    IF Encode(key) \in DOMAIN d THEN d[Encode(key)].v ELSE <<>>

(***************************************************************************)
(* Names and inputs.                                                       *)
(***************************************************************************)
\* method.__qualname__ of Cache.store: "Cache.store"
qualname == PyStr(<<67, 97, 99, 104, 101, 46, 115, 116, 111, 114, 101>>)

\* f"{method.__qualname__}:inputs"
input_key == PyStr(qualname.v \o <<58, 105, 110, 112, 117, 116, 115>>)

\* f"{method.__qualname__}:outputs"
output_key == PyStr(qualname.v \o <<58, 111, 117, 116, 112, 117, 116, 115>>)

\* the strings str(uuid.uuid4()) can return, abbreviated to "u1" .. "u4"
UUIDs == {<<117, 49>>, <<117, 50>>, <<117, 51>>, <<117, 52>>}

\* the payloads callers store: "a", "b", "c", "", 42, b"\xff", 1.5
TextPayloads == {PyStr(<<97>>), PyStr(<<98>>), PyStr(<<99>>)}

Payloads ==
    TextPayloads \cup {PyStr(<<>>), PyInt(42), PyBytes(<<255>>), PyFloat(1, 5)}

\* the payloads of the runs with failures or several callers: "a", 42
SharedPayloads == {PyStr(<<97>>), PyInt(42)}

\* the callers; each holds at most one facade at a time
Procs == {"p1", "p2"}

(***************************************************************************)
(* State.                                                                  *)
(***************************************************************************)
VARIABLES
    db,       \* the Redis database all facades share
    issued,   \* the strings uuid4 has returned so far
    pc,       \* pc[p]: the command caller p issues next, "idle" between calls
    built,    \* built[p]: the number of Cache objects p has constructed
    data,     \* data[p]: the argument of p's store call in progress
    result,   \* result[p]: the key p's store call in progress generated
    inputs,   \* inputs[p]: the inputs list p's replay has read
    ret,      \* ret[p]: the call p completed last and what it returned
    log,      \* the store calls that returned, in the order they returned
    failed,   \* failed[c]: the store calls that raised at command c
    ncalls,   \* the store calls started
    stdout    \* the lines printed

vars ==
    <<db, issued, pc, built, data, result, inputs, ret, log, failed, ncalls,
      stdout>>

Commands == {"rpush_in", "incr", "set", "rpush_out"}

\* count_calls applied outermost: the counter moves before the inputs list
Order_swapped == <<"incr", "rpush_in", "set", "rpush_out">>

\* the commands of one store call in the order the stacked decorators
\* issue them: call_history outermost, count_calls inside it, then the
\* method body, then call_history's second half (exercise.py:69-71)
Order == <<"rpush_in", "incr", "set", "rpush_out">>

\* the command after c in a store call, "idle" after the last
After(c) ==
    LET i == CHOOSE j \in 1..Len(Order) : Order[j] = c
    IN  IF i < Len(Order) THEN Order[i + 1] ELSE "idle"

NoCall == [op |-> "none", key |-> None, fn |-> "none", val |-> None]

\* the state in which the callers of `made` have each constructed a facade
\* and nothing has been stored since
InitWith(made) ==
    /\ db = flushdb
    /\ issued = {}
    /\ pc = [p \in Procs |-> "idle"]
    /\ built = [p \in Procs |-> IF p \in made THEN 1 ELSE 0]
    /\ data = [p \in Procs |-> None]
    /\ result = [p \in Procs |-> None]
    /\ inputs = [p \in Procs |-> <<>>]
    /\ ret = [p \in Procs |-> NoCall]
    /\ log = <<>>
    /\ failed = [c \in Commands |-> 0]
    /\ ncalls = 0
    /\ stdout = <<>>

\* a constructor that connects and does not flush
Cache_init_keeps(p) ==
    /\ pc[p] = "idle"
    /\ built[p] < MaxBuilt
    /\ built' = [built EXCEPT ![p] = @ + 1]
    /\ ret' = [ret EXCEPT ![p] = [NoCall EXCEPT !.op = "Cache"]]
    /\ UNCHANGED <<db, issued, pc, data, result, inputs, log, failed, ncalls,
                   stdout>>

(***************************************************************************)
(* Cache.__init__ (exercise.py:62-67).                                     *)
(***************************************************************************)
Cache_init(p) ==
    /\ pc[p] = "idle"
    /\ built[p] < MaxBuilt
    /\ db' = flushdb
    /\ built' = [built EXCEPT ![p] = @ + 1]
    /\ ret' = [ret EXCEPT ![p] = [NoCall EXCEPT !.op = "Cache"]]
    /\ UNCHANGED <<issued, pc, data, result, inputs, log, failed, ncalls, stdout>>

(***************************************************************************)
(* Cache.store under call_history under count_calls (exercise.py:69-77),   *)
(* one action per Redis command.                                           *)
(***************************************************************************)
\* the caller calls cache.store(v); a run starts at most max store calls
store_call(p, v, max) ==
    /\ pc[p] = "idle"
    /\ built[p] > 0
    /\ ncalls < max
    /\ pc' = [pc EXCEPT ![p] = Order[1]]
    /\ data' = [data EXCEPT ![p] = v]
    /\ ret' = [ret EXCEPT ![p] = NoCall]
    /\ ncalls' = ncalls + 1
    /\ UNCHANGED <<db, issued, built, result, inputs, log, failed, stdout>>

\* lpush in place of rpush: the newest call first
call_history_in_lpush(p) ==
    /\ pc[p] = "rpush_in"
    /\ db' = (Encode(input_key) :>
                [t |-> "list",
                 v |-> <<Encode(PyStr(StrArgs(data[p])))>>
                       \o Rlrange(db, input_key)]) @@ db
    /\ pc' = [pc EXCEPT ![p] = After(pc[p])]
    /\ UNCHANGED <<issued, built, data, result, inputs, ret, log, failed, ncalls,
                   stdout>>

\* call_history.wrapper, lines 31-33: rpush(input_key, str(args))
call_history_in(p) ==
    /\ pc[p] = "rpush_in"
    /\ db' = Rrpush(db, input_key, PyStr(StrArgs(data[p])))
    /\ pc' = [pc EXCEPT ![p] = After(pc[p])]
    /\ UNCHANGED <<issued, built, data, result, inputs, ret, log, failed, ncalls,
                   stdout>>

\* set(name, 1) in place of incr(name)
count_calls_wrapper_sets_one(p) ==
    /\ pc[p] = "incr"
    /\ db' = Rset(db, qualname, PyInt(1))
    /\ pc' = [pc EXCEPT ![p] = After(pc[p])]
    /\ UNCHANGED <<issued, built, data, result, inputs, ret, log, failed, ncalls,
                   stdout>>

\* count_calls.wrapper, line 20: incr(method.__qualname__)
count_calls_wrapper(p) ==
    /\ pc[p] = "incr"
    /\ db' = Rincr(db, qualname)
    /\ pc' = [pc EXCEPT ![p] = After(pc[p])]
    /\ UNCHANGED <<issued, built, data, result, inputs, ret, log, failed, ncalls,
                   stdout>>

\* uuid.uuid4(): a string no earlier call returned
uuid4 == UUIDs \ issued

\* a key derived from the payload in place of a generated one
store_key_from_data(p, v, k) == PyStr(Repr(v))

\* the key the store call of p with payload v generates
store_key(p, v, k) == PyStr(k)

\* set(key, key) in place of set(key, data)
store_sets_key(p) ==
    /\ pc[p] = "set"
    /\ \E k \in uuid4 :
        /\ issued' = issued \cup {k}
        /\ result' = [result EXCEPT ![p] = store_key(p, data[p], k)]
        /\ db' = Rset(db, store_key(p, data[p], k), store_key(p, data[p], k))
    /\ pc' = [pc EXCEPT ![p] = After(pc[p])]
    /\ UNCHANGED <<built, data, inputs, ret, log, failed, ncalls, stdout>>

\* Cache.store, lines 75-77: key = str(uuid.uuid4()); set(key, data)
store(p) ==
    /\ pc[p] = "set"
    /\ \E k \in uuid4 :
        /\ issued' = issued \cup {k}
        /\ result' = [result EXCEPT ![p] = store_key(p, data[p], k)]
        /\ db' = Rset(db, store_key(p, data[p], k), data[p])
    /\ pc' = [pc EXCEPT ![p] = After(pc[p])]
    /\ UNCHANGED <<built, data, inputs, ret, log, failed, ncalls, stdout>>

\* call_history.wrapper, lines 35-36: rpush(output_key, str(result));
\* return result
call_history_out(p) ==
    /\ pc[p] = "rpush_out"
    /\ db' = Rrpush(db, output_key, result[p])
    /\ ret' = [ret EXCEPT ![p] = [NoCall EXCEPT !.op = "store", !.val = result[p]]]
    /\ log' = Append(log, [p |-> p, data |-> data[p], key |-> result[p]])
    /\ pc' = [pc EXCEPT ![p] = After(pc[p])]
    /\ data' = [data EXCEPT ![p] = None]
    /\ result' = [result EXCEPT ![p] = None]
    /\ UNCHANGED <<issued, built, inputs, failed, ncalls, stdout>>

\* a wrapper that catches the failure and takes its inputs entry back
redis_raises_rollback(p) ==
    /\ pc[p] \in Commands
    /\ \/ pc[p] # "set" /\ issued' = issued
       \/ pc[p] = "set" /\ \E k \in uuid4 : issued' = issued \cup {k}
    /\ db' = IF pc[p] \in {"incr", "set", "rpush_out"}
             THEN (Encode(input_key) :>
                     [t |-> "list",
                      v |-> SubSeq(Rlrange(db, input_key), 1,
                                   Len(Rlrange(db, input_key)) - 1)]) @@ db
             ELSE db
    /\ failed' = [failed EXCEPT ![pc[p]] = @ + 1]
    /\ ret' = [ret EXCEPT ![p] =
                 [NoCall EXCEPT !.op = "store", !.val = Raise("ConnectionError")]]
    /\ pc' = [pc EXCEPT ![p] = "idle"]
    /\ data' = [data EXCEPT ![p] = None]
    /\ result' = [result EXCEPT ![p] = None]
    /\ UNCHANGED <<built, inputs, log, ncalls, stdout>>

\* the Redis command p issues next raises; nothing catches it, so the
\* store call ends there (at "set" the uuid was already generated)
redis_raises(p) ==
    /\ pc[p] \in Commands
    /\ \/ pc[p] # "set" /\ issued' = issued
       \/ pc[p] = "set" /\ \E k \in uuid4 : issued' = issued \cup {k}
    /\ failed' = [failed EXCEPT ![pc[p]] = @ + 1]
    /\ ret' = [ret EXCEPT ![p] =
                 [NoCall EXCEPT !.op = "store", !.val = Raise("ConnectionError")]]
    /\ pc' = [pc EXCEPT ![p] = "idle"]
    /\ data' = [data EXCEPT ![p] = None]
    /\ result' = [result EXCEPT ![p] = None]
    /\ UNCHANGED <<db, built, inputs, log, ncalls, stdout>>

\* one step of a store call of p that meets no failure, its payload in P
store_step(p, P, max) ==
    \/ \E v \in P : store_call(p, v, max)
    \/ call_history_in(p)
    \/ count_calls_wrapper(p)
    \/ store(p)
    \/ call_history_out(p)

(***************************************************************************)
(* Cache.get, Cache.get_str, Cache.get_int (exercise.py:79-102).           *)
(***************************************************************************)
\* the converters callers pass to get: none, int, and
\* lambda d: d.decode("utf-8")
Converters == {"none", "int", "decode"}

\* fn(value)
Apply(fn, value) ==
    CASE fn = "int" ->
             IF value.t = "None" THEN Raise("TypeError") ELSE int(value)
      [] fn = "decode" ->
             IF value.t = "None" THEN Raise("AttributeError") ELSE decode(value)

Cache_get(d, key, fn) ==
    LET value == Rget(d, key)
    IN  IF fn # "none" THEN Apply(fn, value) ELSE value

Cache_get_str(d, key) ==
    LET value == Cache_get(d, key, "none")
    IN  IF Truthy(value) THEN decode(value) ELSE value

\* "if value is not None" in place of "if value"
Cache_get_int_not_none(d, key) ==
    LET value == Cache_get(d, key, "none")
    IN  IF value.t # "None" THEN int(value) ELSE value

Cache_get_int(d, key) ==
    LET value == Cache_get(d, key, "none")
    IN  IF Truthy(value) THEN int(value) ELSE value

\* the keys callers read: any uuid string, stored or not, and the counter
ReadKeys == {PyStr(k) : k \in UUIDs} \cup {qualname}

get(p, key, fn) ==
    /\ pc[p] = "idle"
    /\ built[p] > 0
    /\ ret' = [ret EXCEPT ![p] =
                 [op |-> "get", key |-> key, fn |-> fn,
                  val |-> Cache_get(db, key, fn)]]
    /\ UNCHANGED <<db, issued, pc, built, data, result, inputs, log, failed,
                   ncalls, stdout>>

get_str(p, key) ==
    /\ pc[p] = "idle"
    /\ built[p] > 0
    /\ ret' = [ret EXCEPT ![p] =
                 [op |-> "get_str", key |-> key, fn |-> "none",
                  val |-> Cache_get_str(db, key)]]
    /\ UNCHANGED <<db, issued, pc, built, data, result, inputs, log, failed,
                   ncalls, stdout>>

get_int(p, key) ==
    /\ pc[p] = "idle"
    /\ built[p] > 0
    /\ ret' = [ret EXCEPT ![p] =
                 [op |-> "get_int", key |-> key, fn |-> "none",
                  val |-> Cache_get_int(db, key)]]
    /\ UNCHANGED <<db, issued, pc, built, data, result, inputs, log, failed,
                   ncalls, stdout>>

\* one read by p
read(p) ==
    \E key \in ReadKeys :
        \/ \E fn \in Converters : get(p, key, fn)
        \/ get_str(p, key)
        \/ get_int(p, key)

(***************************************************************************)
(* replay (exercise.py:40-55), one action per Redis command.               *)
(***************************************************************************)
Min(S) == CHOOSE x \in S : \A y \in S : x <= y

\* f"{method_name} was called {len(inputs)} times:"
Summary(n) ==
    qualname.v \o <<32, 119, 97, 115, 32, 99, 97, 108, 108, 101, 100, 32>>
    \o IntRepr(n) \o <<32, 116, 105, 109, 101, 115, 58>>

\* f"{method_name}(*{inp_tuple}) -> {out_str}"
Line(inp_tuple, out_str) ==
    qualname.v \o <<40, 42>> \o StrArgs(inp_tuple.v[1])
    \o <<41, 32, 45, 62, 32>> \o out_str.v

\* one pass of the loop body, lines 52-55: the line printed or the
\* exception raised
LoopBody(inp, out) ==
    LET text == decode(PyBytes(inp))
        inp_tuple == IF text.t = "raise" THEN text ELSE eval(text)
        out_str == decode(PyBytes(out))
    IN  IF inp_tuple.t = "raise" THEN inp_tuple
        ELSE IF out_str.t = "raise" THEN out_str
        ELSE PyStr(Line(inp_tuple, out_str))

\* lines 48-55 on the two lists read: what is printed, and the exception
\* that ends the loop early, if any
Printed(ins, outs) ==
    LET m == IF Len(ins) < Len(outs) THEN Len(ins) ELSE Len(outs)
        bad == {i \in 1..m : LoopBody(ins[i], outs[i]).t = "raise"}
        stop == IF bad = {} THEN m ELSE Min(bad) - 1
    IN  [lines |-> <<Summary(Len(ins))>>
                   \o [i \in 1..stop |-> LoopBody(ins[i], outs[i]).v],
         exc |-> IF bad = {} THEN None
                 ELSE LoopBody(ins[Min(bad)], outs[Min(bad)])]

\* line 44: cache = Cache()
replay_Cache(p) ==
    /\ pc[p] = "idle"
    /\ built[p] > 0
    /\ built[p] < MaxBuilt
    /\ db' = flushdb
    /\ built' = [built EXCEPT ![p] = @ + 1]
    /\ ret' = [ret EXCEPT ![p] = NoCall]
    /\ pc' = [pc EXCEPT ![p] = "lrange_in"]
    /\ UNCHANGED <<issued, data, result, inputs, log, failed, ncalls, stdout>>

\* line 46: inputs = lrange(f"{method_name}:inputs", 0, -1)
replay_inputs(p) ==
    /\ pc[p] = "lrange_in"
    /\ inputs' = [inputs EXCEPT ![p] = Rlrange(db, input_key)]
    /\ pc' = [pc EXCEPT ![p] = "lrange_out"]
    /\ UNCHANGED <<db, issued, built, data, result, ret, log, failed, ncalls,
                   stdout>>

\* lines 47-55: outputs = lrange(f"{method_name}:outputs", 0, -1), then
\* the printing
replay_outputs(p) ==
    /\ pc[p] = "lrange_out"
    /\ LET outputs == Rlrange(db, output_key)
           printed == Printed(inputs[p], outputs)
       IN  /\ stdout' = stdout \o printed.lines
           /\ ret' = [ret EXCEPT ![p] =
                        [NoCall EXCEPT !.op = "replay", !.val = printed.exc]]
    /\ pc' = [pc EXCEPT ![p] = "idle"]
    /\ inputs' = [inputs EXCEPT ![p] = <<>>]
    /\ UNCHANGED <<db, issued, built, data, result, log, failed, ncalls>>

\* one step of a replay(cache.store) by p
replay(p) == replay_Cache(p) \/ replay_inputs(p) \/ replay_outputs(p)

(***************************************************************************)
(* One caller, one facade, store calls one after the other.                *)
(***************************************************************************)
InitSeq == InitWith({"p1"})

NextSeq == store_step("p1", Payloads, MaxCalls)

SpecSeq == InitSeq /\ [][NextSeq]_vars

(***************************************************************************)
(* One caller, one facade: store calls and reads.                          *)
(***************************************************************************)
\* store calls started in a run with reads
MaxReadCalls == 2

NextRead ==
    \/ store_step("p1", Payloads, MaxReadCalls)
    \/ read("p1")

SpecRead == InitSeq /\ [][NextRead]_vars

(***************************************************************************)
(* One caller, one facade: store calls any command of which may raise.     *)
(***************************************************************************)
NextFail == store_step("p1", SharedPayloads, MaxCalls) \/ redis_raises("p1")

SpecFail == InitSeq /\ [][NextFail]_vars

(***************************************************************************)
(* One caller: store calls of text payloads, then replay.                  *)
(***************************************************************************)
NextReplay == store_step("p1", TextPayloads, MaxCalls) \/ replay("p1")

SpecReplay == InitSeq /\ [][NextReplay]_vars

(***************************************************************************)
(* Two callers, each with its facade, whose store calls interleave command *)
(* by command; no facade is constructed meanwhile.                         *)
(***************************************************************************)
\* store calls started by the two callers together
MaxSharedCalls == 2

InitConc == InitWith(Procs)

NextConc == \E p \in Procs : store_step(p, Payloads, MaxSharedCalls)

SpecConc == InitConc /\ [][NextConc]_vars

(***************************************************************************)
(* The whole program: callers that construct facades, store and replay,    *)
(* interleaved command by command.                                         *)
(***************************************************************************)
\* store calls started in a run of the whole program
MaxProgCalls == 1

Init == InitWith({})

Next ==
    \E p \in Procs :
        \/ Cache_init(p)
        \/ store_step(p, SharedPayloads, MaxProgCalls)
        \/ replay(p)

Spec == Init /\ [][Next]_vars

(***************************************************************************)
(* What the database holds, as the properties below read it.               *)
(***************************************************************************)
\* the counter under "Cache.store", 0 while the key is absent
CounterValue ==
    IF Rget(db, qualname) = None THEN 0 ELSE int(Rget(db, qualname)).v

InputsList == Rlrange(db, input_key)

OutputsList == Rlrange(db, output_key)

\* the uuid strings that are keys of the database
StoredKeys == {k \in UUIDs : Rget(db, PyStr(k)) # None}

\* the bytes the inputs list holds for a call with payload v
Recorded(v) == Encode(PyStr(StrArgs(v)))

Idle == \A p \in Procs : pc[p] = "idle"

(***************************************************************************)
(* C1: one caller, store calls one after the other, no flush: the counter  *)
(* under "Cache.store" equals the number of store calls made, N after the  *)
(* Nth call has returned; a call in progress counts from its incr on, and  *)
(* the key is absent (nothing counted) before the first.                   *)
(***************************************************************************)
C1_CounterEqualsCalls ==
    LET counted == IF pc["p1"] \in {"rpush_in", "incr"} THEN ncalls - 1
                   ELSE ncalls
    IN  /\ CounterValue = counted
        /\ (Rget(db, qualname) = None) <=> (counted = 0)
        /\ pc["p1"] = "idle" => CounterValue = Len(log)

C1_Witness ==
    /\ pc["p1"] = "idle"
    /\ Len(log) = 3
    /\ Cache_get_int(db, qualname) = PyInt(3)

(***************************************************************************)
(* C2: after N store calls that returned, one after the other, the inputs  *)
(* list and the outputs list each hold N elements; element i of inputs is  *)
(* the str() of the argument tuple of call i and element i of outputs is   *)
(* the key call i returned.                                                *)
(***************************************************************************)
C2_HistoryInCallOrder ==
    pc["p1"] = "idle" =>
        /\ Len(log) = ncalls
        /\ InputsList = [i \in 1..Len(log) |-> Recorded(log[i].data)]
        /\ OutputsList = [i \in 1..Len(log) |-> Encode(log[i].key)]

C2_Witness ==
    /\ pc["p1"] = "idle"
    /\ Len(log) = 3
    /\ log[1].data # log[2].data
    /\ log[2].data # log[3].data
    /\ Len(InputsList) = 3
    /\ Len(OutputsList) = 3

(***************************************************************************)
(* C3: after store("a"), store("b"), store("c") on one facade,             *)
(* replay(cache.store) prints "Cache.store was called 3 times:" and then   *)
(* one line per call, in call order, with the call's argument tuple and    *)
(* the key it returned.                                                    *)
(***************************************************************************)
C3_ReplayPrintsThreeCalls ==
    ( /\ pc["p1"] = "idle"
      /\ ret["p1"].op = "replay"
      /\ built["p1"] = 2
      /\ Len(log) = 3
      /\ <<log[1].data, log[2].data, log[3].data>>
           = <<PyStr(<<97>>), PyStr(<<98>>), PyStr(<<99>>)>> )
    => stdout = <<Summary(3)>>
                \o [i \in 1..3 |->
                      Line([t |-> "tuple", v |-> <<log[i].data>>], log[i].key)]

(***************************************************************************)
(* C4: a get with no converter of a key that store returned gives the      *)
(* bytes the payload of that call was stored as, also after later store    *)
(* calls on the same facade.                                               *)
(***************************************************************************)
C4_GetReturnsStoredBytes ==
    /\ \A i \in 1..Len(log) :
           Cache_get(db, log[i].key, "none") = PyBytes(Encode(log[i].data))
    /\ \A i \in 1..Len(log) :
           (ret["p1"].op = "get" /\ ret["p1"].fn = "none"
            /\ ret["p1"].key = log[i].key)
           => ret["p1"].val = PyBytes(Encode(log[i].data))

C4_Witness ==
    /\ Len(log) = 2
    /\ log[1].data # log[2].data
    /\ ret["p1"].op = "get"
    /\ ret["p1"].fn = "none"
    /\ ret["p1"].key = log[1].key
    /\ ret["p1"].val = PyBytes(Encode(log[1].data))

C6_KeysDistinct ==
    \A i, j \in 1..Len(log) : i # j => log[i].key # log[j].key

C6_Witness ==
    /\ Len(log) = 2
    /\ log[1].data = log[2].data
    /\ log[1].p # log[2].p
    /\ log[1].key # log[2].key

(***************************************************************************)
(* C7: every construction of a facade, by Cache() or inside replay, leaves *)
(* the shared database empty: no counter, both history lists empty, every  *)
(* key any store call generated absent; and replay constructs a facade as  *)
(* its first step, before it reads the lists.                              *)
(***************************************************************************)
C7_ConstructionFlushes ==
    [][\A p \in Procs :
         (\/ built'[p] = built[p] + 1
          \/ pc[p] = "idle" /\ pc'[p] = "lrange_in")
         => /\ built'[p] = built[p] + 1
            /\ Rget(db', qualname) = None
            /\ Rlrange(db', input_key) = <<>>
            /\ Rlrange(db', output_key) = <<>>
            /\ \A k \in issued' : Rget(db', PyStr(k)) = None]_vars

\* p has just constructed a facade, and the call another caller's facade
\* had completed left nothing behind
C7_Witness ==
    \E p, q \in Procs :
        /\ p # q
        /\ ret[p].op = "Cache"
        /\ built[p] = 2
        /\ built[q] > 0
        /\ Len(log) = 1
        /\ log[1].p = q
        /\ pc[q] = "idle"
        /\ db = flushdb

(***************************************************************************)
(* C8: within a store call the commands go: rpush to inputs, incr, set of  *)
(* the payload, rpush to outputs.  So with n earlier calls returned, the   *)
(* inputs list, the counter, the stored keys and the outputs list number   *)
(* n,n,n,n before the first command, n+1,n,n,n before incr, n+1,n+1,n,n    *)
(* when the payload is written, and n+1,n+1,n+1,n before the last.         *)
(***************************************************************************)
C8_CommandOrder ==
    LET n == Len(log)
        now == <<Len(InputsList), CounterValue, Cardinality(StoredKeys),
                 Len(OutputsList)>>
    IN  now = CASE pc["p1"] = "rpush_in" -> <<n, n, n, n>>
                [] pc["p1"] = "incr" -> <<n + 1, n, n, n>>
                [] pc["p1"] = "set" -> <<n + 1, n + 1, n, n>>
                [] pc["p1"] = "rpush_out" -> <<n + 1, n + 1, n + 1, n>>
                [] OTHER -> <<n, n, n, n>>

\* the payload of the second call is about to be written
C8_Witness ==
    /\ pc["p1"] = "set"
    /\ Len(log) = 1
    /\ Len(InputsList) = 2
    /\ CounterValue = 2
    /\ Len(OutputsList) = 1

(***************************************************************************)
(* C9: a store call whose command raises ends there and nothing is taken   *)
(* back.  Between calls the inputs list is longer than the outputs list by *)
(* the calls that raised after their rpush to inputs, and the counter is   *)
(* ahead of the outputs list by the calls that raised after their incr; a  *)
(* single failure, at set, leaves inputs one longer than outputs and the   *)
(* counter one ahead.                                                      *)
(***************************************************************************)
C9_NoRollback ==
    pc["p1"] = "idle" =>
        /\ Len(OutputsList) = Len(log)
        /\ Len(InputsList)
             = Len(log) + failed["incr"] + failed["set"] + failed["rpush_out"]
        /\ CounterValue = Len(log) + failed["set"] + failed["rpush_out"]
        /\ ncalls = Len(log) + failed["rpush_in"] + failed["incr"]
                    + failed["set"] + failed["rpush_out"]
        /\ (ret["p1"].val = Raise("ConnectionError")
            /\ failed = [c \in Commands |-> IF c = "set" THEN 1 ELSE 0])
           => /\ Len(InputsList) = Len(OutputsList) + 1
              /\ CounterValue = Len(OutputsList) + 1

\* the second call raised at set, after a first call that returned
C9_Witness ==
    /\ pc["p1"] = "idle"
    /\ ret["p1"].val = Raise("ConnectionError")
    /\ failed = [c \in Commands |-> IF c = "set" THEN 1 ELSE 0]
    /\ Len(log) = 1
    /\ Len(InputsList) = 2
    /\ Len(OutputsList) = 1
    /\ CounterValue = 2

(***************************************************************************)
(* C10: two callers whose store calls interleave command by command, no    *)
(* facade constructed meanwhile: once every call has returned, the two     *)
(* lists are equally long, the counter equals the number of calls, and     *)
(* element i of outputs is the key returned by the call whose arguments    *)
(* are element i of inputs.                                                *)
(***************************************************************************)
C10_InterleavedHistoryAligned ==
    Idle =>
        /\ Len(InputsList) = Len(OutputsList)
        /\ CounterValue = ncalls
        /\ \A i \in 1..Len(log) :
               /\ OutputsList[i] = Encode(log[i].key)
               /\ InputsList[i] = Recorded(log[i].data)

=============================================================================
